---- MODULE Spec2Model ----
(***************************************************************************)
(* Model of the AutomationDesk memory monitor:                             *)
(*   memory_monitor.py     memory_monitor()      one WMI sample            *)
(*   alert_system.py       send_outlook_alert()  Outlook dispatch          *)
(*   memory_monitor_ui.py  MemoryMonitorApp      settings, start/stop and  *)
(*                                               the polling thread        *)
(* Percentages are Python floats in the source.  Every value used here is  *)
(* a dyadic rational, so it is held exactly as an integer number of        *)
(* thousandths of a percent (70.0 is 70000, 71.875 is 71875).              *)
(***************************************************************************)
EXTENDS Integers, Sequences, FiniteSets, Bags, TLC

\* Number of polling threads that can be alive at the same time.
MaxThreads == 2

\* memory_monitor.py:52  total_memory = 4096.0 (MB)
TotalMemoryMb == 4096

\* memory_monitor_ui.py:100 / :110  self.threshold = 70.0 (percent)
DefaultThreshold == 70

\* memory_monitor_ui.py:153  "+ 5" re-alert increment (percent)
HysteresisStep == 5

\* memory_monitor.py:49  bytes -> MB is / (1024.0 * 1024.0); sizes are drawn
\* in KiB here (TLC integers are 32 bit), so the model divides by 1024 once.
KiBPerMb == 1024

----------------------------------------------------------------------------
\* Python values

\* None / a float, for last_alert_memory.
None == {}
Some(v) == {v}
IsNone(o) == o = {}
Val(o) == CHOOSE v \in o : TRUE

\* A Python float as float() can return it: finite (v in thousandths), nan, +-inf.
FNum(v) == [k |-> "num", v |-> v]
FNaN == [k |-> "nan", v |-> 0]
FInf(sign) == [k |-> "inf", v |-> sign]

\* x >= t  for a finite x and any float t (IEEE: every comparison with nan is False).
GeqFloat(x, t) ==
    CASE t.k = "num" -> x >= t.v
      [] t.k = "nan" -> FALSE
      [] t.k = "inf" -> t.v < 0

----------------------------------------------------------------------------
\* Text handling: a str is a sequence of one-character strings.

IsSpace(c) == c = " "

RECURSIVE LStrip(_)
LStrip(s) == IF s # <<>> /\ IsSpace(Head(s)) THEN LStrip(Tail(s)) ELSE s

RECURSIVE RStrip(_)
RStrip(s) ==
    IF s # <<>> /\ IsSpace(s[Len(s)]) THEN RStrip(SubSeq(s, 1, Len(s) - 1)) ELSE s

\* str.strip()
Strip(s) == RStrip(LStrip(s))

\* str.split(sep): the pieces between occurrences of sep, empty pieces kept.
RECURSIVE SplitAcc(_, _, _)
SplitAcc(s, sep, cur) ==
    IF s = <<>> THEN <<cur>>
    ELSE IF Head(s) = sep THEN <<cur>> \o SplitAcc(Tail(s), sep, <<>>)
    ELSE SplitAcc(Tail(s), sep, Append(cur, Head(s)))

Split(s, sep) == SplitAcc(s, sep, <<>>)

Digits == <<"0", "1", "2", "3", "4", "5", "6", "7", "8", "9">>

IsDigit(c) == \E i \in 1..10 : Digits[i] = c
DigitVal(c) == (CHOOSE i \in 1..10 : Digits[i] = c) - 1

RECURSIVE DigitsVal(_, _)
DigitsVal(s, acc) ==
    IF s = <<>> THEN acc ELSE DigitsVal(Tail(s), acc * 10 + DigitVal(Head(s)))

AllDigits(s) == \A i \in 1..Len(s) : IsDigit(s[i])

Lower(c) ==
    CASE c = "N" -> "n" [] c = "A" -> "a" [] c = "I" -> "i" [] c = "F" -> "f"
      [] OTHER -> c

LowerStr(s) == [i \in 1..Len(s) |-> Lower(s[i])]

\* The thousandths a fraction part (up to three digits) stands for.
FracVal(s) ==
    CASE Len(s) = 0 -> 0
      [] Len(s) = 1 -> DigitsVal(s, 0) * 100
      [] Len(s) = 2 -> DigitsVal(s, 0) * 10
      [] OTHER -> DigitsVal(SubSeq(s, 1, 3), 0)

\* float(text) for an unsigned, stripped text: digits with an optional
\* fraction part, "nan", "inf" or "infinity"; anything else is a ValueError.
ParseUnsigned(b) ==
    LET l == LowerStr(b)
        dot == IF \E i \in 1..Len(b) : b[i] = "."
               THEN CHOOSE i \in 1..Len(b) : b[i] = "." /\ \A j \in 1..(i - 1) : b[j] # "."
               ELSE 0
        ip == IF dot = 0 THEN b ELSE SubSeq(b, 1, dot - 1)
        fp == IF dot = 0 THEN <<>> ELSE SubSeq(b, dot + 1, Len(b))
    IN  IF l = <<"n", "a", "n">> THEN [ok |-> TRUE, val |-> FNaN]
        ELSE IF l = <<"i", "n", "f">> \/ l = <<"i", "n", "f", "i", "n", "i", "t", "y">>
             THEN [ok |-> TRUE, val |-> FInf(1)]
        ELSE IF AllDigits(ip) /\ AllDigits(fp) /\ Len(ip) + Len(fp) > 0
             THEN [ok |-> TRUE, val |-> FNum(DigitsVal(ip, 0) * 1000 + FracVal(fp))]
        ELSE [ok |-> FALSE, val |-> FNaN]

Negate(f) ==
    CASE f.k = "num" -> FNum(0 - f.v)
      [] f.k = "inf" -> FInf(0 - f.v)
      [] OTHER -> f

\* float(text): surrounding blanks ignored, one optional sign.
ParseFloat(text) ==
    LET s == Strip(text)
        signed == s # <<>> /\ Head(s) \in {"+", "-"}
        r == ParseUnsigned(IF signed THEN Tail(s) ELSE s)
    IN  IF signed /\ r.ok /\ Head(s) = "-" THEN [ok |-> TRUE, val |-> Negate(r.val)]
        ELSE r

----------------------------------------------------------------------------
\* memory_monitor.py

\* What the WMI query can do on one call of memory_monitor():
\*   connect_error  wmi.WMI() raises (line 31, outside the try)
\*   enum_error     c.Win32_Process() or process.Name raises (inside the try)
\*   absent         no process is named AutomationDesk.exe
\*   present        a match; vs is VirtualSize in KiB, None for a missing value
\*   size_error     a match whose size cannot be read: float(...) raises after
\*                  found was set (lines 43-45)
VirtualSizesKiB == {2621440, 3014656, 3145728, 3276800}

QueryOutcomes ==
    {[kind |-> k, vs |-> None] : k \in {"connect_error", "enum_error", "absent", "size_error"}}
    \cup {[kind |-> "present", vs |-> v] : v \in {None} \cup {Some(x) : x \in VirtualSizesKiB}}

\* memory_percentage = (vm_mb / total_memory) * 100.0, in thousandths.
MemoryPercentage(vsKiB) == ((vsKiB \div KiBPerMb) * 100 * 1000) \div TotalMemoryMb

\* memory_monitor(): raised is TRUE when the call propagates an exception,
\* otherwise (found, memory_percentage) is the returned tuple (vm_mb and ws_mb
\* take no part in any decision and are left out).
memory_monitor(q) ==
    CASE q.kind = "connect_error" -> [raised |-> TRUE, found |-> FALSE, pct |-> 0]
      [] q.kind \in {"enum_error", "absent"} -> [raised |-> FALSE, found |-> FALSE, pct |-> 0]
      [] q.kind = "size_error" -> [raised |-> FALSE, found |-> TRUE, pct |-> 0]
      [] q.kind = "present" ->
           [raised |-> FALSE, found |-> TRUE,
            pct |-> IF IsNone(q.vs) THEN 0 ELSE MemoryPercentage(Val(q.vs))]

----------------------------------------------------------------------------
\* alert_system.py

\* What Outlook can do on one call of send_outlook_alert():
\*   ok              every COM call returns
\*   dispatch_error  Dispatch / CreateItem / a property assignment raises
\*   send_error      mail.Send() raises
NotifierOutcomes == {"ok", "dispatch_error", "send_error"}

\* send_outlook_alert(process_name, vm_mb, ws_mb, memory_percentage,
\*                    custom_recipients, crash_detected) under Outlook outcome o.
\*   sends   how many times mail.Send() was invoked
\*   log     what was written to the log: "skip_alert" (line 31), "alert_sent"
\*           (log_alert, line 119), "error" (line 122)
\*   failed  whether an Outlook call raised inside the try block
\*   raised  whether an exception left the function
\* mail.Send() and log_alert() sit inside the else branch of "if crash_detected"
\* (lines 116-119), so a crash mail is built and never sent.

\* C6 mutant: the "if not custom_recipients: return" guard (lines 30-32) left out.
send_outlook_alert_NoGuard(custom_recipients, crash_detected, o) ==
    IF o = "dispatch_error"
    THEN [sends |-> 0, log |-> {"error"}, failed |-> TRUE, raised |-> FALSE]
    ELSE IF crash_detected
    THEN [sends |-> 0, log |-> {}, failed |-> FALSE, raised |-> FALSE]
    ELSE IF o = "send_error"
    THEN [sends |-> 1, log |-> {"error"}, failed |-> TRUE, raised |-> FALSE]
    ELSE [sends |-> 1, log |-> {"alert_sent"}, failed |-> FALSE, raised |-> FALSE]

\* C8 mutant: the try/except around the Outlook calls (lines 37, 120-122) left
\* out, so an Outlook error leaves the function.
send_outlook_alert_NoCatch(custom_recipients, crash_detected, o) ==
    IF custom_recipients = <<>>
    THEN [sends |-> 0, log |-> {"skip_alert"}, failed |-> FALSE, raised |-> FALSE]
    ELSE IF o = "dispatch_error"
    THEN [sends |-> 0, log |-> {}, failed |-> TRUE, raised |-> TRUE]
    ELSE IF crash_detected
    THEN [sends |-> 0, log |-> {}, failed |-> FALSE, raised |-> FALSE]
    ELSE IF o = "send_error"
    THEN [sends |-> 1, log |-> {}, failed |-> TRUE, raised |-> TRUE]
    ELSE [sends |-> 1, log |-> {"alert_sent"}, failed |-> FALSE, raised |-> FALSE]

send_outlook_alert(custom_recipients, crash_detected, o) ==
    IF custom_recipients = <<>>
    THEN [sends |-> 0, log |-> {"skip_alert"}, failed |-> FALSE, raised |-> FALSE]
    ELSE IF o = "dispatch_error"
    THEN [sends |-> 0, log |-> {"error"}, failed |-> TRUE, raised |-> FALSE]
    ELSE IF crash_detected
    THEN [sends |-> 0, log |-> {}, failed |-> FALSE, raised |-> FALSE]
    ELSE IF o = "send_error"
    THEN [sends |-> 1, log |-> {"error"}, failed |-> TRUE, raised |-> FALSE]
    ELSE [sends |-> 1, log |-> {"alert_sent"}, failed |-> FALSE, raised |-> FALSE]

----------------------------------------------------------------------------
\* memory_monitor_ui.py: MemoryMonitorApp

VARIABLES
    monitoring,         \* self.monitoring
    emails,             \* self.emails: sequence of str
    threshold,          \* self.threshold: float
    last_alert_memory,  \* self.last_alert_memory: None or a percentage
    threads,            \* the polling threads that have not returned: a bag of
                        \* thread states (the code never tells threads apart)
    absentRun,          \* history: consecutive not-found samples of the session
                        \* so far, counted up to 2
    lastEvent,          \* history: level of the last HighMemory event of the
                        \* session's current run at or above the threshold
    out                 \* what the latest step did (sample, event, sends, log)

vars == <<monitoring, emails, threshold, last_alert_memory, threads,
          absentRun, lastEvent, out>>

\* Where a polling thread is in run_monitoring:
\*   loop  before "while self.monitoring": just created, or in time.sleep(5)
\*   tick  loop condition passed, about to call memory_monitor() (line 143)
\*   send  about to call send_outlook_alert() (line 155 or 163) for an alert of
\*         the given kind and percentage
\* A thread that has returned from run_monitoring (normally or through an
\* exception) is no longer in the bag; "free" names that position in out.pos.
AtLoop == [pc |-> "loop", kind |-> "none", pct |-> 0]
AtTick == [pc |-> "tick", kind |-> "none", pct |-> 0]
AtSend(kind, pct) == [pc |-> "send", kind |-> kind, pct |-> pct]

\* The bag with thread state t replaced by t2, and with t taken out.
Move(t, t2) == (threads (-) SetToBag({t})) (+) SetToBag({t2})
Leave(t) == threads (-) SetToBag({t})

\* The record of a step that samples nothing and alerts nobody; pos is where
\* the thread that took the step now is ("none" for a step of the UI thread),
\* query is what WMI did when the step called memory_monitor().
Quiet(act, pos) ==
    [act |-> act, pos |-> pos, query |-> "none", raised |-> FALSE, found |-> FALSE,
     pct |-> 0, event |-> "none", sends |-> 0, failed |-> FALSE, log |-> {}]

Init ==
    /\ monitoring = FALSE
    /\ emails = <<>>
    /\ threshold = FNum(DefaultThreshold * 1000)
    /\ last_alert_memory = None
    /\ threads = EmptyBag
    /\ absentRun = 0
    /\ lastEvent = None
    /\ out = Quiet("init", "none")

\* Texts the operator can leave in the two entry fields when pressing Save.
\* Recipients: nothing, " ; " and "a; b,c;a" (a blank to strip, a comma, and
\* the same address twice).  Threshold: "75", "abc" and "nan".
EmailTexts ==
    {<<>>, <<" ", ";", " ">>, <<"a", ";", " ", "b", ",", "c", ";", "a">>}
ThresholdTexts == {<<"7", "5">>, <<"a", "b", "c">>, <<"n", "a", "n">>}

\* [e.strip() for e in email_str.split(";") if e.strip()]
RECURSIVE StripNonBlank(_)
StripNonBlank(parts) ==
    IF parts = <<>> THEN <<>>
    ELSE IF Strip(Head(parts)) # <<>>
         THEN <<Strip(Head(parts))>> \o StripNonBlank(Tail(parts))
         ELSE StripNonBlank(Tail(parts))

\* C20 mutant: the pieces are taken as split, neither stripped nor filtered.
ParseEmails_NoStrip(text) ==
    LET email_str == Strip(text)
    IN  IF email_str # <<>> THEN Split(email_str, ";") ELSE <<>>

ParseEmails(text) ==
    LET email_str == Strip(text)
    IN  IF email_str # <<>> THEN StripNonBlank(Split(email_str, ";")) ELSE <<>>

ParseThreshold(text) ==
    LET p == ParseFloat(Strip(text))
    IN  IF p.ok THEN p.val ELSE FNum(DefaultThreshold * 1000)

save_settings(emailText, thresholdText) ==
    /\ threshold' = ParseThreshold(thresholdText)
    /\ emails' = ParseEmails(emailText)
    /\ out' = [Quiet("save_settings", "none") EXCEPT !.log = {"settings_saved"}]
    /\ UNCHANGED <<monitoring, last_alert_memory, threads, absentRun, lastEvent>>

start_monitoring ==
    IF ~monitoring
    THEN /\ BagCardinality(threads) < MaxThreads
         /\ monitoring' = TRUE
         /\ last_alert_memory' = None
         /\ threads' = threads (+) SetToBag({AtLoop})
         /\ absentRun' = 0
         /\ lastEvent' = None
         /\ out' = [Quiet("start_monitoring", "none") EXCEPT !.log = {"started"}]
         /\ UNCHANGED <<emails, threshold>>
    ELSE /\ out' = Quiet("start_monitoring", "none")
         /\ UNCHANGED <<monitoring, emails, threshold, last_alert_memory, threads,
                        absentRun, lastEvent>>

stop_monitoring ==
    IF monitoring
    THEN /\ monitoring' = FALSE
         /\ out' = [Quiet("stop_monitoring", "none") EXCEPT !.log = {"stopped"}]
         /\ UNCHANGED <<emails, threshold, last_alert_memory, threads,
                        absentRun, lastEvent>>
    ELSE /\ out' = Quiet("stop_monitoring", "none")
         /\ UNCHANGED <<monitoring, emails, threshold, last_alert_memory, threads,
                        absentRun, lastEvent>>

\* x < t for a finite x and any float t.
LtFloat(x, t) ==
    CASE t.k = "num" -> x < t.v
      [] t.k = "nan" -> FALSE
      [] t.k = "inf" -> t.v > 0

\* C10 mutant: the loop runs on whatever the flag says ("while True").
LoopContinues_Always(flag) == TRUE

\* "while self.monitoring" (line 141)
LoopContinues(flag) == flag

\* run_monitoring, from thread start or from the end of time.sleep(5) to the
\* loop condition: into the next tick, or out through the finally clause.
Check(t) ==
    /\ BagIn(t, threads) /\ t.pc = "loop"
    /\ IF LoopContinues(monitoring)
       THEN threads' = Move(t, AtTick) /\ out' = Quiet("check", "tick")
       ELSE threads' = Leave(t) /\ out' = Quiet("check", "free")
    /\ UNCHANGED <<monitoring, emails, threshold, last_alert_memory,
                   absentRun, lastEvent>>

\* C4 mutant: the crash branch fires only for the first not-found sample after
\* a found one (edge-triggered), staying silent while the process stays absent.
EngineEvent_EdgeCrash(r, thr, last) ==
    IF r.found
    THEN IF GeqFloat(r.pct, thr)
            /\ (IsNone(last) \/ r.pct >= Val(last) + HysteresisStep * 1000)
         THEN "HighMemory"
         ELSE "none"
    ELSE IF absentRun = 0 THEN "Crash" ELSE "none"

\* C18 mutant: the threshold test of line 151 written with > instead of >=.
EngineEvent_StrictThreshold(r, thr, last) ==
    IF r.found
    THEN IF ~LtFloat(r.pct, thr) /\ thr # FNaN /\ thr # FNum(r.pct)
            /\ (IsNone(last) \/ r.pct >= Val(last) + HysteresisStep * 1000)
         THEN "HighMemory"
         ELSE "none"
    ELSE "Crash"

\* The alert a sample r calls for (lines 145-165), before recipients are looked
\* at: "HighMemory" when line 153 is reached and true, "Crash" in the else
\* branch of "if found", "none" otherwise.
EngineEvent(r, thr, last) ==
    IF r.found
    THEN IF GeqFloat(r.pct, thr)
            /\ (IsNone(last) \/ r.pct >= Val(last) + HysteresisStep * 1000)
         THEN "HighMemory"
         ELSE "none"
    ELSE "Crash"

\* Whether the tick hands its alert to send_outlook_alert ("if self.emails",
\* lines 154 and 162).
HasRecipients(recipients) == recipients # <<>>

\* What the tick itself writes to the UI log: the sample line (148) or the
\* not-found line (161), and the skip line (158, 165) of an alert not handed on.
TickLog(r, ev, handed) ==
    {IF r.found THEN "sample" ELSE "not_found"}
    \cup (IF handed \/ ev = "none" THEN {}
          ELSE IF ev = "HighMemory" THEN {"skip_email"} ELSE {"skip_crash"})

\* run_monitoring, lines 143-165 up to the call of send_outlook_alert: sample,
\* log, decide.  q is what WMI does on this call.  An exception from
\* memory_monitor() leaves run_monitoring through its finally clause.
Tick(t, q) ==
    LET r == memory_monitor(q)
        ev == EngineEvent(r, threshold, last_alert_memory)
        handed == ev # "none" /\ HasRecipients(emails)
    IN  /\ BagIn(t, threads) /\ t.pc = "tick"
        /\ IF r.raised
           THEN /\ threads' = Leave(t)
                /\ out' = [Quiet("tick", "free") EXCEPT !.query = q.kind, !.raised = TRUE]
                /\ UNCHANGED <<absentRun, lastEvent>>
           ELSE /\ threads' = Move(t, IF handed THEN AtSend(ev, r.pct) ELSE AtLoop)
                /\ absentRun' = IF r.found THEN 0 ELSE IF absentRun = 0 THEN 1 ELSE 2
                /\ lastEvent' = IF ev = "HighMemory" THEN Some(r.pct)
                                ELSE IF r.found /\ GeqFloat(r.pct, threshold) THEN lastEvent
                                ELSE None
                /\ out' = [Quiet("tick", IF handed THEN "send" ELSE "loop")
                             EXCEPT !.query = q.kind,
                                    !.found = r.found, !.pct = r.pct, !.event = ev,
                                    !.log = TickLog(r, ev, handed)]
        /\ UNCHANGED <<monitoring, emails, threshold, last_alert_memory>>

\* C21 mutant: the watermark is advanced only when the alert went out (no
\* Outlook call failed).
Dispatch_WatermarkOnSuccess(t, o) ==
    LET res == send_outlook_alert(emails, t.kind = "Crash", o)
    IN  /\ BagIn(t, threads) /\ t.pc = "send"
        /\ threads' = IF res.raised THEN Leave(t) ELSE Move(t, AtLoop)
        /\ last_alert_memory' = IF t.kind = "HighMemory" /\ ~res.raised /\ ~res.failed
                                THEN Some(t.pct)
                                ELSE last_alert_memory
        /\ out' = [Quiet("send", IF res.raised THEN "free" ELSE "loop")
                     EXCEPT !.raised = res.raised, !.pct = t.pct, !.event = t.kind,
                            !.sends = res.sends, !.failed = res.failed,
                            !.log = res.log]
        /\ UNCHANGED <<monitoring, emails, threshold, absentRun, lastEvent>>

\* run_monitoring, lines 155-156 and 163: the call of send_outlook_alert with
\* self.emails as it is now, then (HighMemory only) the watermark assignment.
\* o is what Outlook does on this call.
Dispatch(t, o) ==
    LET res == send_outlook_alert(emails, t.kind = "Crash", o)
    IN  /\ BagIn(t, threads) /\ t.pc = "send"
        /\ threads' = IF res.raised THEN Leave(t) ELSE Move(t, AtLoop)
        /\ last_alert_memory' = IF t.kind = "HighMemory" /\ ~res.raised
                                THEN Some(t.pct)
                                ELSE last_alert_memory
        /\ out' = [Quiet("send", IF res.raised THEN "free" ELSE "loop")
                     EXCEPT !.raised = res.raised, !.pct = t.pct, !.event = t.kind,
                            !.sends = res.sends, !.failed = res.failed,
                            !.log = res.log]
        /\ UNCHANGED <<monitoring, emails, threshold, absentRun, lastEvent>>

\* One step of a polling thread that is in state t.
run_monitoring(t) ==
    \/ Check(t)
    \/ \E q \in QueryOutcomes : Tick(t, q)
    \/ \E o \in NotifierOutcomes : Dispatch(t, o)

\* The percentages memory_monitor() can return: 0.0 for a missing or unread
\* VirtualSize, otherwise the percentage of the size.
Percentages == {0} \cup {MemoryPercentage(v) : v \in VirtualSizesKiB}

ThreadStates ==
    {AtLoop, AtTick, AtSend("Crash", 0)}
    \cup {AtSend("HighMemory", p) : p \in Percentages}

Next ==
    \/ \E e \in EmailTexts, t \in ThresholdTexts : save_settings(e, t)
    \/ start_monitoring
    \/ stop_monitoring
    \/ \E t \in ThreadStates : run_monitoring(t)

Spec == Init /\ [][Next]_vars

\* A polling thread does not stay where it is for ever: the scheduler runs it,
\* time.sleep(5) returns, and the WMI and Outlook calls return.
FairSpec ==
    /\ Spec
    /\ WF_vars(\E t \in ThreadStates : Check(t))
    /\ WF_vars(\E t \in ThreadStates, q \in QueryOutcomes : Tick(t, q))
    /\ WF_vars(\E t \in ThreadStates, o \in NotifierOutcomes : Dispatch(t, o))

----------------------------------------------------------------------------
\* Properties

\* The latest step was a tick of the poll loop that obtained a sample.
Sampled == out.act = "tick" /\ ~out.raised

\* How many polling threads are inside a tick: past the loop condition,
\* sampling or alerting.
NumInTick == BagCardinality(threads) - CopiesIn(AtLoop, threads)

AllStopped == threads = EmptyBag

\* C1: whenever a tick samples the process as present with usage below the
\* threshold, last_alert_memory is None after that tick (so that a later
\* re-crossing of the threshold alerts again).
C1_WatermarkResetOnDip ==
    (Sampled /\ out.found /\ LtFloat(out.pct, threshold)) => IsNone(last_alert_memory)

\* C2: with a single poll loop running, once a HighMemory event has been
\* emitted in a run of found samples at or above the threshold, a further
\* sample of that run that has not reached the event's level plus the step
\* emits no event: the run yields exactly one HighMemory event.
C2_OneEventPerExcursion ==
    [][(/\ out'.act = "tick" /\ ~out'.raised /\ out'.found
        /\ BagCardinality(threads) = 1
        /\ GeqFloat(out'.pct, threshold)
        /\ ~IsNone(lastEvent)
        /\ out'.pct < Val(lastEvent) + HysteresisStep * 1000)
       => out'.event = "none"]_vars

\* C3: when a watermark w is set and a found sample is at or above both the
\* threshold and w plus the step, the tick emits a HighMemory event and the
\* watermark becomes that sample's percentage (at the latest when the dispatch
\* the tick started returns).
C3_StepFromWatermark ==
    [][(/\ out'.act = "tick" /\ ~out'.raised /\ out'.found
        /\ ~IsNone(last_alert_memory)
        /\ GeqFloat(out'.pct, threshold)
        /\ out'.pct >= Val(last_alert_memory) + HysteresisStep * 1000)
       => /\ out'.event = "HighMemory"
          /\ \/ last_alert_memory' = Some(out'.pct)
             \/ out'.pos = "send" /\ BagIn(AtSend("HighMemory", out'.pct), threads')]_vars

\* C4 as claimed: a not-found sample emits a Crash event exactly when it is the
\* first one after a found sample (or the session's first sample); while the
\* process stays absent no further event is emitted.
C4_CrashEdgeTriggered ==
    (Sampled /\ ~out.found) => (out.event = IF absentRun = 1 THEN "Crash" ELSE "none")

\* C4 as amended: crash alerting is level-triggered; a tick emits a Crash event
\* exactly when its sample does not find the process, whatever the previous
\* sample was.
C4_CrashEveryAbsentTick ==
    Sampled => (out.event = "Crash" <=> ~out.found)

\* C4 witness: a second consecutive not-found sample, and a Crash event again.
C4_Witness ==
    Sampled /\ ~out.found /\ absentRun = 2 /\ out.event = "Crash"

\* C5: an event handed to send_outlook_alert with a non-empty recipient list,
\* Crash or HighMemory, gets mail.Send() invoked unless Outlook failed before
\* that, and a summary line logged when nothing failed.
C5_DispatchSends ==
    (out.act = "send" /\ emails # <<>> /\ ~out.failed)
        => (out.sends = 1 /\ "alert_sent" \in out.log)

\* C6: with the recipient list empty no step invokes mail.Send(), and a step
\* that emits or dispatches an event (of either variant) logs it as skipped.
C6_NoSendWithoutRecipients ==
    emails = <<>> =>
        /\ out.sends = 0
        /\ (out.act \in {"tick", "send"} /\ out.event # "none")
              => out.log \cap {"skip_email", "skip_crash", "skip_alert"} # {}

\* C6 witness: recipients were emptied between the tick's test of self.emails
\* and its call of send_outlook_alert; the call skips and sends nothing.
C6_Witness ==
    out.act = "send" /\ emails = <<>> /\ out.sends = 0 /\ "skip_alert" \in out.log

\* C7: a tick that emits a HighMemory event while the recipient list is empty
\* records it as skipped, sends nothing, and still advances the watermark to
\* the sample's percentage (so that later samples short of a further step emit
\* nothing more).
C7_SkippedEventSetsWatermark ==
    (Sampled /\ out.event = "HighMemory" /\ emails = <<>>)
        => /\ "skip_email" \in out.log
           /\ out.sends = 0
           /\ last_alert_memory = Some(out.pct)

\* C8: a dispatch in which an Outlook call raises logs the error, raises
\* nothing into the poll loop, leaves monitoring as it was and the thread
\* before its loop condition; and a thread that reaches the loop condition
\* while monitoring is set goes on to sample again.
C8_NotifierFailureNotFatal ==
    [][/\ (out'.act = "send" /\ out'.failed)
            => /\ ~out'.raised /\ "error" \in out'.log
               /\ monitoring' = monitoring /\ out'.pos = "loop"
               /\ BagCardinality(threads') = BagCardinality(threads)
       /\ (out'.act = "check" /\ monitoring)
            => out'.pos = "tick"]_vars

\* C8 witness: mail.Send() was invoked and raised; the error is in the log and
\* the thread is alive.
C8_Witness ==
    /\ out.act = "send" /\ out.sends = 1 /\ out.failed /\ "error" \in out.log
    /\ out.pos = "loop" /\ BagIn(AtLoop, threads)

\* C9: at no time are two polling threads inside a tick.
C9_SinglePollLoop == NumInTick <= 1

\* C10: while monitoring stays cleared no thread passes its loop condition
\* into a new tick (a thread that evaluates it returns), and, unless monitoring
\* is set again, every polling thread eventually returns from run_monitoring.
C10_StopTerminates ==
    /\ [][(~monitoring /\ ~monitoring')
            => /\ NumInTick' <= NumInTick
               /\ out'.act = "check" => out'.pos = "free"]_vars
    /\ (~monitoring ~> (monitoring \/ AllStopped))

\* C10 witness: a thread evaluated its loop condition after stop and returned.
C10_Witness ==
    ~monitoring /\ out.act = "check" /\ out.pos = "free"

\* C11: a start while monitoring is set creates no thread, leaves monitoring
\* and the watermark as they were, and writes a log line saying so.
C11_StartWhileRunningLogged ==
    [][(monitoring /\ out'.act = "start_monitoring")
          => /\ threads' = threads
             /\ monitoring'
             /\ last_alert_memory' = last_alert_memory
             /\ out'.log # {}]_vars

\* C12: whenever the WMI query fails (connecting, enumerating, or reading the
\* matched process's sizes) memory_monitor() raises nothing and returns
\* found = False with zero sizes.
C12_SamplerNeverRaises ==
    (out.act = "tick" /\ out.query \in {"connect_error", "enum_error", "size_error"})
        => (~out.raised /\ ~out.found /\ out.pct = 0)

\* C13: after a polling thread has left run_monitoring through an exception,
\* monitoring is False.
C13_DeadWorkerClearsRunning ==
    (out.act \in {"tick", "send"} /\ out.raised) => ~monitoring

\* C14: while monitoring stays set, no step changes the threshold or the
\* recipient list the ticks read (a save during a session has no effect on it).
C14_ConfigFrozenWhileRunning ==
    [][(monitoring /\ monitoring') => (threshold' = threshold /\ emails' = emails)]_vars

\* C15: after a tick whose sample does not find the process, last_alert_memory
\* is None (so that the next found sample at or above the threshold alerts).
C15_AbsentResetsWatermark ==
    (Sampled /\ ~out.found) => IsNone(last_alert_memory)

\* C16: the watermark, None since the start of the session, is first written
\* only with the level of a HighMemory event that a tick emitted after that
\* start: no thread writes the level of an event emitted before it.
C16_WatermarkWrittenByOwnSession ==
    [][(IsNone(last_alert_memory) /\ ~IsNone(last_alert_memory'))
          => lastEvent = last_alert_memory']_vars

\* C17: in every step that changes a set watermark, the new watermark is None
\* or strictly greater than the old one.
C17_WatermarkMonotone ==
    [][(~IsNone(last_alert_memory) /\ ~IsNone(last_alert_memory')
        /\ last_alert_memory' # last_alert_memory)
          => Val(last_alert_memory') > Val(last_alert_memory)]_vars

\* C18: a tick emits a HighMemory event only for a found sample at or above the
\* threshold, and with no watermark set it emits one for every such sample,
\* the sample equal to the threshold included.
C18_ThresholdInclusive ==
    Sampled =>
        /\ out.event = "HighMemory" => (out.found /\ GeqFloat(out.pct, threshold))
        /\ (IsNone(last_alert_memory) /\ out.found /\ GeqFloat(out.pct, threshold))
              => out.event = "HighMemory"

\* C18 witness: no watermark, a found sample exactly at the threshold, and a
\* HighMemory event.
C18_Witness ==
    /\ Sampled /\ out.found /\ IsNone(last_alert_memory)
    /\ threshold = FNum(out.pct) /\ out.event = "HighMemory"

\* C19: the threshold the poll loop compares against is always a number
\* within 0..100, whatever was saved.
C19_ThresholdInRange ==
    threshold.k = "num" /\ threshold.v >= 0 /\ threshold.v <= 100 * 1000

\* No entry of the sequence occurs twice.
IsDistinct(seq) == \A i, j \in 1..Len(seq) : seq[i] = seq[j] => i = j

\* The text contains the character c.
HasChar(text, c) == \E i \in 1..Len(text) : text[i] = c

\* C20 as claimed: after a save the recipient list holds no blank entry, no
\* entry twice, and no entry with a comma or a semicolon left in it (both
\* delimit).
C20_RecipientsSplitDeduped ==
    out.act = "save_settings" =>
        /\ IsDistinct(emails)
        /\ \A i \in 1..Len(emails) :
              /\ emails[i] # <<>>
              /\ ~HasChar(emails[i], ",") /\ ~HasChar(emails[i], ";")

\* C20 as amended: only the semicolon delimits; after a save every stored
\* entry is a non-blank piece of the text between semicolons with its
\* surrounding blanks stripped (commas stay inside entries, repeated entries
\* stay repeated).
C20_RecipientsSemicolonSplit ==
    out.act = "save_settings" =>
        \A i \in 1..Len(emails) :
            /\ emails[i] # <<>>
            /\ Strip(emails[i]) = emails[i]
            /\ ~HasChar(emails[i], ";")

\* C20 witness: "a; b,c;a" was saved as three entries, the comma kept inside
\* the second and "a" stored twice.
C20_Witness ==
    out.act = "save_settings" /\ emails = <<<<"a">>, <<"b", ",", "c">>, <<"a">>>>

\* C21: when the call of send_outlook_alert for a HighMemory alert returns,
\* last_alert_memory is that sample's percentage, also when an Outlook call
\* raised inside it; and a found sample that has not reached the watermark
\* plus the step emits no event (the failed alert is not tried again).
C21_WatermarkAdvancesOnFailure ==
    /\ (out.act = "send" /\ out.event = "HighMemory")
          => last_alert_memory = Some(out.pct)
    /\ (Sampled /\ out.found /\ ~IsNone(last_alert_memory)
        /\ out.pct < Val(last_alert_memory) + HysteresisStep * 1000)
          => out.event = "none"

\* C21 witness: mail.Send() raised for a HighMemory alert sent to recipients,
\* and the watermark is the alert's percentage.
C21_Witness ==
    /\ out.act = "send" /\ out.event = "HighMemory" /\ emails # <<>>
    /\ out.failed /\ out.sends = 1 /\ last_alert_memory = Some(out.pct)

====
